---- MODULE Spec2Model ----
(***************************************************************************)
(* Trade persistence and statistics of TradeTrackr (server/storage.ts,     *)
(* shared/schema.ts): the trades table, the DatabaseStorage operations on  *)
(* it and the getTradingStats aggregation.                                 *)
(*                                                                         *)
(* Money is held in cents: the decimal(10,2) columns entry_price,          *)
(* exit_price and pnl store two fractional digits, and the inputs are the  *)
(* decimal strings the zod schema accepts for them.  Time is a tick        *)
(* counter; a calendar day is DayLen ticks.                                *)
(* Columns that no storage operation reads or derives (symbol, notes,      *)
(* entryTime, updatedAt) are not carried in the rows.                      *)
(***************************************************************************)
EXTENDS Integers, Sequences, FiniteSets, TLC

VARIABLES trades, nextId, now, nUpdates, stats, ret

vars == <<trades, nextId, now, nUpdates, stats, ret>>

(***************************************************************************)
(* Bounds of the model.                                                    *)
(***************************************************************************)
MaxTrades == 2        \* rows ever inserted in one behaviour
MaxTime == 1          \* last tick of the clock
MaxUpdates == 1       \* updateTrade calls in one behaviour
MaxLimit == 2         \* largest explicit limit given to getTrades
MaxRows == 3          \* rows of a store drawn for the read-only operations
MaxClosed == 160      \* closed trades of the largest ledger

DayLen == 2           \* ticks per calendar day
DefaultLimit == 10    \* getTrades(userId, limit = 10)

Users == {"A", "B"}
Types == {"long", "short"}
Statuses == {"open", "closed"}
Times == 0..MaxTime
TradeIds == 1..MaxTrades
\* req.params.id is any string: the ids the store gave out and one string
\* that is no uuid.
NotUuid == 0
RequestIds == TradeIds \cup {NotUuid}

(***************************************************************************)
(* Values.  A nullable column holds Null or Some(v).  A field of a request *)
(* body is a string; JsNull is an explicit null, and a key that is not     *)
(* sent is not in the DOMAIN of the body.                                  *)
(***************************************************************************)
Null == <<>>
Some(v) == <<v>>
Val(o) == o[1]
JsNull == "null"

\* JavaScript truthiness of an optional string field: undefined, null and
\* the empty string (which z.string() accepts) are falsy, every other
\* string is truthy.
Truthy(body, key) == key \in DOMAIN body /\ body[key] # JsNull /\ body[key] # ""

\* parseFloat(x.toString()) of a decimal string, in cents.
parseFloat(s) ==
  CASE s = "100.00" -> 10000
    [] s = "110.00" -> 11000
    [] s = "0.00" -> 0

\* The store's cast of a string to numeric(10,2): "" is no number.
IsNumeric(s) == s # ""

\* { ...a, ...b } of two objects.
Spread(a, b) ==
  [k \in DOMAIN a \cup DOMAIN b |-> IF k \in DOMAIN b THEN b[k] ELSE a[k]]

\* The keys of `keys` an object carries (a partial object).
Pick(obj, keys) == [k \in keys |-> obj[k]]

(***************************************************************************)
(* The trades table (shared/schema.ts).  A row:                            *)
(*   id, userId, type, quantity, entryPrice (cents),                       *)
(*   exitPrice, pnl, exitTime (nullable), status, createdAt.               *)
(***************************************************************************)
\* where user_id = userId
Owned(store, userId) == {t \in store : t.userId = userId}

\* A nullable numeric column written from a request string.
NumericCol(s) == IF s = JsNull THEN Null ELSE Some(parseFloat(s))

\* The store rejects a statement that binds "" to a numeric column.
Castable(body, keys) ==
  \A k \in keys \cap DOMAIN body : body[k] = JsNull \/ IsNumeric(body[k])

(***************************************************************************)
(* The response a storage call returned last: the rows, whether it threw,  *)
(* and for getTradingStats the five figures.  It is NoResponse from the    *)
(* moment a getTradingStats call starts until a call returns.              *)
(***************************************************************************)
NoStat == [todayTrades |-> 0, yesterdayTrades |-> 0, totalTrades |-> 0,
           winRate |-> 0, totalPnL |-> 0]

Response(op, userId, tradeId, rows, err) ==
  [op |-> op, userId |-> userId, tradeId |-> tradeId, limit |-> Null,
   from |-> 0, to |-> 0, rows |-> rows, err |-> err, stat |-> NoStat]

NoResponse == Response("none", "A", 0, <<>>, FALSE)

\* The position of a getTradingStats call and the counts it has read.
StatsIdle == [pc |-> "idle", userId |-> "A", today |-> 0,
              todayCount |-> 0, yesterdayCount |-> 0, totalCount |-> 0]

(***************************************************************************)
(* createTrade                                                             *)
(***************************************************************************)
\* Lines 85-96: the profit and loss of the request body, in cents.
CreatePnl(trade) ==
  IF Truthy(trade, "exitPrice") /\ Truthy(trade, "entryPrice")
  THEN LET entryPrice == parseFloat(trade.entryPrice)
           exitPrice == parseFloat(trade.exitPrice)
           quantity == trade.quantity
       IN IF trade.type = "long"
          THEN Some((exitPrice - entryPrice) * quantity)
          ELSE Some((entryPrice - exitPrice) * quantity)
  ELSE Null

\* Lines 100-106: the inserted values, and the row the store makes of them
\* (id from gen_random_uuid(), created_at from defaultNow()).
RowAt(id, userId, trade, at) ==
  [id |-> id,
   userId |-> userId,
   type |-> trade.type,
   quantity |-> trade.quantity,
   entryPrice |-> parseFloat(trade.entryPrice),
   exitPrice |-> IF "exitPrice" \in DOMAIN trade
                 THEN NumericCol(trade.exitPrice) ELSE Null,
   pnl |-> CreatePnl(trade),
   status |-> IF Truthy(trade, "exitPrice") THEN "closed" ELSE "open",
   exitTime |-> IF Truthy(trade, "exitPrice") THEN Some(at) ELSE Null,
   createdAt |-> at]

NewRow(userId, trade) == RowAt(nextId, userId, trade, now)

CreateTrade(userId, trade) ==
  /\ nextId <= MaxTrades
  /\ IF Castable(trade, {"entryPrice", "exitPrice"})
     THEN /\ trades' = trades \cup {NewRow(userId, trade)}
          /\ nextId' = nextId + 1
          /\ ret' = Response("createTrade", userId, nextId,
                             <<NewRow(userId, trade)>>, FALSE)
     ELSE /\ UNCHANGED <<trades, nextId>>
          /\ ret' = Response("createTrade", userId, 0, <<>>, TRUE)
  /\ UNCHANGED <<now, nUpdates, stats>>

(***************************************************************************)
(* updateTrade                                                             *)
(***************************************************************************)
\* Line 115: the request body itself carries both prices.
BothPrices(trade) == Truthy(trade, "exitPrice") /\ Truthy(trade, "entryPrice")

\* Line 118: trade.quantity || 0.
QuantityOrZero(trade) ==
  IF "quantity" \in DOMAIN trade THEN trade.quantity ELSE 0

\* Lines 116-124: the profit and loss of the request body, in cents.
UpdatePnl(trade) ==
  LET entryPrice == parseFloat(trade.entryPrice)
      exitPrice == parseFloat(trade.exitPrice)
      quantity == QuantityOrZero(trade)
  IN IF "type" \in DOMAIN trade /\ trade.type = "long"
     THEN (exitPrice - entryPrice) * quantity
     ELSE (entryPrice - exitPrice) * quantity

\* Lines 114-127 and 131: the columns the UPDATE sets, as column values.
\* A key the body does not carry is not set.
SetClause(trade) ==
  LET sent == Spread(
        Spread(
          Spread(
            Pick(trade, {"type", "quantity", "status", "exitTime"} \cap DOMAIN trade),
            IF "entryPrice" \in DOMAIN trade
            THEN [entryPrice |-> parseFloat(trade.entryPrice)] ELSE <<>>),
          IF "exitPrice" \in DOMAIN trade
          THEN [exitPrice |-> NumericCol(trade.exitPrice)] ELSE <<>>),
        IF "pnl" \in DOMAIN trade
        THEN [pnl |-> NumericCol(trade.pnl)] ELSE <<>>)
  IN IF BothPrices(trade)
     THEN Spread(sent, [pnl |-> Some(UpdatePnl(trade)),
                        status |-> "closed",
                        exitTime |-> Some(now)])
     ELSE sent

\* Mutant of Matching: the owner is not part of the where clause.
MatchingAnyOwner(tradeId, userId) == {t \in trades : t.id = tradeId}

\* The store's cast of the tradeId parameter to the uuid column trades.id:
\* the statement is rejected when the string is no uuid.
IsUuid(tradeId) == tradeId # NotUuid

\* Line 132: where id = tradeId and user_id = userId.
Matching(tradeId, userId) ==
  {t \in trades : t.id = tradeId /\ t.userId = userId}

UpdateTrade(tradeId, userId, trade) ==
  /\ IF /\ IsUuid(tradeId)
        /\ Castable(trade, {"entryPrice", "exitPrice"} \cup
                            (IF BothPrices(trade) THEN {} ELSE {"pnl"}))
     THEN LET hit == Matching(tradeId, userId)
              new == {Spread(t, SetClause(trade)) : t \in hit}
          IN /\ trades' = (trades \ hit) \cup new
             /\ ret' = Response("updateTrade", userId, tradeId,
                                IF new = {} THEN <<>>
                                ELSE <<CHOOSE t \in new : TRUE>>, FALSE)
     ELSE /\ UNCHANGED trades
          /\ ret' = Response("updateTrade", userId, tradeId, <<>>, TRUE)
  /\ UNCHANGED <<nextId, now, stats>>

(***************************************************************************)
(* deleteTrade                                                             *)
(***************************************************************************)
\* Mutant of DeleteTrade: the row is deleted by its id alone.
DeleteTradeById(tradeId, userId) ==
  /\ IF IsUuid(tradeId)
     THEN /\ trades' = {t \in trades : t.id # tradeId}
          /\ ret' = Response("deleteTrade", userId, tradeId, <<>>, FALSE)
     ELSE /\ UNCHANGED trades
          /\ ret' = Response("deleteTrade", userId, tradeId, <<>>, TRUE)
  /\ UNCHANGED <<nextId, now, nUpdates, stats>>

\* Lines 139-141: the DELETE, which the store rejects when tradeId is no
\* uuid; the call then throws.
DeleteTrade(tradeId, userId) ==
  /\ IF IsUuid(tradeId)
     THEN /\ trades' = trades \ Matching(tradeId, userId)
          /\ ret' = Response("deleteTrade", userId, tradeId, <<>>, FALSE)
     ELSE /\ UNCHANGED trades
          /\ ret' = Response("deleteTrade", userId, tradeId, <<>>, TRUE)
  /\ UNCHANGED <<nextId, now, nUpdates, stats>>

\* The clock.
Tick ==
  /\ now < MaxTime
  /\ now' = now + 1
  /\ UNCHANGED <<trades, nextId, nUpdates, stats, ret>>

(***************************************************************************)
(* getTrades, getTradesByDateRange                                         *)
(***************************************************************************)
\* Mutant of OrderByCreatedAtDesc: the order is ascending.
OrderByCreatedAtAsc(rows) ==
  {s \in [1..Cardinality(rows) -> rows] :
     /\ \A i, j \in DOMAIN s : i # j => s[i] # s[j]
     /\ \A i, j \in DOMAIN s : i < j => s[i].createdAt <= s[j].createdAt}

\* order by created_at desc: rows of equal created_at come in any order.
OrderByCreatedAtDesc(rows) ==
  {s \in [1..Cardinality(rows) -> rows] :
     /\ \A i, j \in DOMAIN s : i # j => s[i] # s[j]
     /\ \A i, j \in DOMAIN s : i < j => s[i].createdAt >= s[j].createdAt}

\* limit n.
Limit(s, n) == SubSeq(s, 1, IF n < Len(s) THEN n ELSE Len(s))

\* Line 60: limit = 10 when the argument is not given.
LimitOr10(limit) == IF limit = Null THEN DefaultLimit ELSE Val(limit)

\* Lines 61-66: the results the query can give on a store.
SelectTrades(store, userId, limit) ==
  {Limit(s, LimitOr10(limit)) :
     s \in OrderByCreatedAtDesc(Owned(store, userId))}

GetTrades(userId, limit) ==
  /\ \E rows \in SelectTrades(trades, userId, limit) :
       ret' = [Response("getTrades", userId, 0, rows, FALSE)
                 EXCEPT !.limit = limit]
  /\ UNCHANGED <<trades, nextId, now, nUpdates, stats>>

\* where user_id = userId and created_at >= startDate and created_at <= endDate
InRange(store, userId, startDate, endDate) ==
  {t \in Owned(store, userId) :
     t.createdAt >= startDate /\ t.createdAt <= endDate}

\* Lines 70-80.
SelectRange(store, userId, startDate, endDate) ==
  OrderByCreatedAtDesc(InRange(store, userId, startDate, endDate))

GetTradesByDateRange(userId, startDate, endDate) ==
  /\ \E rows \in SelectRange(trades, userId, startDate, endDate) :
       ret' = [Response("getTradesByDateRange", userId, 0, rows, FALSE)
                 EXCEPT !.from = startDate, !.to = endDate]
  /\ UNCHANGED <<trades, nextId, now, nUpdates, stats>>

(***************************************************************************)
(* getTradingStats: four queries, each awaited, then the figures.          *)
(***************************************************************************)
\* today.setHours(0, 0, 0, 0)
Midnight(t) == t - (t % DayLen)
\* setDate(getDate() + 1), setDate(getDate() - 1)
Tomorrow(today) == today + DayLen
Yesterday(today) == today - DayLen

\* Lines 160-169.
CountToday(store, userId, today) ==
  Cardinality(InRange(store, userId, today, Tomorrow(today)))

\* Mutant of CountYesterday: the window ends before today's midnight.
CountYesterdayHalfOpen(store, userId, today) ==
  Cardinality(InRange(store, userId, Yesterday(today), today - 1))

\* Lines 172-181.
CountYesterday(store, userId, today) ==
  Cardinality(InRange(store, userId, Yesterday(today), today))

\* Lines 184-187.
CountTotal(store, userId) == Cardinality(Owned(store, userId))

\* Lines 190-198.
ClosedTrades(store, userId) ==
  {t \in Owned(store, userId) : t.status = "closed"}

(***************************************************************************)
(* Numbers are IEEE 754 doubles.  A positive double is [m, e]: m its       *)
(* significand, at most Precision bits, the first of them 1 and the most   *)
(* significant first, and e the binary exponent of its last bit; zero has  *)
(* no bits.                                                                *)
(***************************************************************************)
Precision == 53

RECURSIVE ToBits(_)
ToBits(n) == IF n = 0 THEN <<>> ELSE Append(ToBits(n \div 2), n % 2)

RECURSIVE ToInt(_)
ToInt(bits) ==
  IF bits = <<>> THEN 0
  ELSE 2 * ToInt(SubSeq(bits, 1, Len(bits) - 1)) + bits[Len(bits)]

\* The bits without their leading zeros.
Normalize(bits) ==
  IF \A i \in 1..Len(bits) : bits[i] = 0 THEN <<>>
  ELSE SubSeq(bits,
              CHOOSE i \in 1..Len(bits) :
                bits[i] = 1 /\ \A j \in 1..(i - 1) : bits[j] = 0,
              Len(bits))

\* bits + 1, one bit longer when every bit is 1.
Increment(bits) ==
  IF \A i \in 1..Len(bits) : bits[i] = 1
  THEN <<1>> \o [i \in 1..Len(bits) |-> 0]
  ELSE LET k == CHOOSE i \in 1..Len(bits) :
                  bits[i] = 0 /\ \A j \in (i + 1)..Len(bits) : bits[j] = 1
       IN [i \in 1..Len(bits) |->
             IF i < k THEN bits[i] ELSE IF i = k THEN 1 ELSE 0]

\* The double nearest to bits * 2^e, a tie to the even significand.
RoundToDouble(bits, e) ==
  LET s == Normalize(bits)
      n == Len(s)
  IN IF n <= Precision THEN [m |-> s, e |-> e]
     ELSE LET keep == SubSeq(s, 1, Precision)
              guard == s[Precision + 1]
              sticky == \E i \in (Precision + 2)..n : s[i] = 1
              up == guard = 1 /\ (sticky \/ keep[Precision] = 1)
              r == IF up THEN Increment(keep) ELSE keep
          IN IF Len(r) > Precision
             THEN [m |-> SubSeq(r, 1, Precision), e |-> e + (n - Precision) + 1]
             ELSE [m |-> r, e |-> e + (n - Precision)]

RECURSIVE DivideBits(_, _, _, _)
\* The binary expansion of r / den after the bits of acc, the first whole
\* of which stand before the point: Precision + 1 significant bits and one
\* more for what is left.
DivideBits(r, den, acc, whole) ==
  IF r = 0 THEN [bits |-> acc, e |-> whole - Len(acc)]
  ELSE IF Len(Normalize(acc)) > Precision
       THEN [bits |-> Append(acc, 1), e |-> whole - (Len(acc) + 1)]
       ELSE DivideBits((2 * r) % den, den, Append(acc, (2 * r) \div den),
                       whole)

\* num / den of two integers, den > 0.
Divide(num, den) ==
  LET int == ToBits(num \div den)
      q == DivideBits(num % den, den, int, Len(int))
  IN RoundToDouble(q.bits, q.e)

RECURSIVE TimesBits(_, _, _, _)
\* The bits of bits * k + carry, before those of acc.
TimesBits(bits, k, carry, acc) ==
  IF bits = <<>> THEN ToBits(carry) \o acc
  ELSE LET v == bits[Len(bits)] * k + carry
       IN IF v % 2 = 0
          THEN TimesBits(SubSeq(bits, 1, Len(bits) - 1), k, v \div 2,
                         <<0>> \o acc)
          ELSE TimesBits(SubSeq(bits, 1, Len(bits) - 1), k, v \div 2,
                         <<1>> \o acc)

\* x * k for an integer k > 0.
Multiply(x, k) == RoundToDouble(TimesBits(x.m, k, 0, <<>>), x.e)

\* Math.round(x), x >= 0: the integer part, and one more when the first
\* bit behind the point is 1.
MathRound(x) ==
  LET n == Len(x.m)
      whole == n + x.e
  IN IF x.e >= 0 THEN ToInt(x.m \o [i \in 1..x.e |-> 0])
     ELSE IF whole < 0 THEN 0
     ELSE ToInt(SubSeq(x.m, 1, whole)) + x.m[whole + 1]

RECURSIVE Reduce(_)
\* closedTrades.reduce((sum, trade) => sum + (trade.pnl ? pnl : 0), 0).
\* The sum of whole cents does not depend on the order of the rows; the
\* rows are added by halves of the range of their ids.
Reduce(rows) ==
  IF rows = {} THEN 0
  ELSE LET ids == {t.id : t \in rows}
           min == CHOOSE i \in ids : \A j \in ids : i <= j
           max == CHOOSE i \in ids : \A j \in ids : i >= j
           mid == (min + max) \div 2
       IN IF min = max
          THEN LET trade == CHOOSE t \in rows : TRUE
               IN IF trade.pnl # Null THEN Val(trade.pnl) ELSE 0
          ELSE Reduce({t \in rows : t.id <= mid})
                 + Reduce({t \in rows : t.id > mid})

\* Lines 200-202.
WinningTrades(closedTrades) ==
  {t \in closedTrades : t.pnl # Null /\ Val(t.pnl) > 0}

\* Lines 204-205 and 215: Math.round(winRate * 100) / 100 with
\* winRate = (winning / closed) * 100, in hundredths of a percent.
WinRate(closedTrades) ==
  IF Cardinality(closedTrades) > 0
  THEN MathRound(Multiply(Multiply(Divide(Cardinality(WinningTrades(closedTrades)),
                                          Cardinality(closedTrades)),
                                   100),
                          100))
  ELSE 0

\* Lines 207-209 and 216: Math.round(totalPnL * 100) / 100, in cents.  The
\* pnl of every row is a whole number of dollars, which doubles add
\* exactly.
TotalPnL(closedTrades) == Reduce(closedTrades)

StatsBegin(userId) ==
  /\ stats.pc = "idle"
  /\ stats' = [StatsIdle EXCEPT !.pc = "today", !.userId = userId,
                                !.today = Midnight(now)]
  /\ ret' = NoResponse
  /\ UNCHANGED <<trades, nextId, now, nUpdates>>

StatsToday ==
  /\ stats.pc = "today"
  /\ stats' = [stats EXCEPT !.pc = "yesterday",
       !.todayCount = CountToday(trades, stats.userId, stats.today)]
  /\ UNCHANGED <<trades, nextId, now, nUpdates, ret>>

StatsYesterday ==
  /\ stats.pc = "yesterday"
  /\ stats' = [stats EXCEPT !.pc = "total",
       !.yesterdayCount = CountYesterday(trades, stats.userId, stats.today)]
  /\ UNCHANGED <<trades, nextId, now, nUpdates, ret>>

StatsTotal ==
  /\ stats.pc = "total"
  /\ stats' = [stats EXCEPT !.pc = "closed",
       !.totalCount = CountTotal(trades, stats.userId)]
  /\ UNCHANGED <<trades, nextId, now, nUpdates, ret>>

StatsClosed ==
  /\ stats.pc = "closed"
  /\ LET closedTrades == ClosedTrades(trades, stats.userId)
     IN ret' = [Response("getTradingStats", stats.userId, 0, <<>>, FALSE)
          EXCEPT !.stat = [todayTrades |-> stats.todayCount,
                           yesterdayTrades |-> stats.yesterdayCount,
                           totalTrades |-> stats.totalCount,
                           winRate |-> WinRate(closedTrades),
                           totalPnL |-> TotalPnL(closedTrades)]]
  /\ stats' = StatsIdle
  /\ UNCHANGED <<trades, nextId, now, nUpdates>>

(***************************************************************************)
(* Request bodies.  insertTradeSchema requires type, quantity and          *)
(* entryPrice; exitPrice is optional and nullable; status is optional (and *)
(* overwritten by createTrade, like pnl and exitTime).  updateTradeSchema  *)
(* is its partial(): every key is optional.                                *)
(***************************************************************************)
InsertFull ==
  [type : Types, quantity : {5}, entryPrice : {"100.00", ""},
   exitPrice : {"110.00", "", JsNull}]

InsertBodies ==
  {Pick(b, {"type", "quantity", "entryPrice"} \cup opt) :
     b \in InsertFull, opt \in SUBSET {"exitPrice"}}

UpdateFull ==
  [type : Types, quantity : {2}, entryPrice : {"100.00"},
   exitPrice : {"110.00", "", JsNull}, pnl : {JsNull},
   status : Statuses, exitTime : {Null}]

UpdateBodies ==
  {Pick(b, keys) : b \in UpdateFull, keys \in SUBSET DOMAIN
     [type |-> 0, quantity |-> 0, entryPrice |-> 0, exitPrice |-> 0,
      pnl |-> 0, status |-> 0, exitTime |-> 0]}

(***************************************************************************)
(* The write path from an empty store, with every request body the         *)
(* schemas accept.                                                         *)
(***************************************************************************)
Init ==
  /\ trades = {}
  /\ nextId = 1
  /\ now = 0
  /\ nUpdates = 0
  /\ stats = StatsIdle
  /\ ret = NoResponse

Create == \E userId \in Users, trade \in InsertBodies : CreateTrade(userId, trade)

Update ==
  /\ nUpdates < MaxUpdates
  /\ nUpdates' = nUpdates + 1
  /\ \E tradeId \in RequestIds, userId \in Users, trade \in UpdateBodies :
       UpdateTrade(tradeId, userId, trade)

Delete ==
  \E tradeId \in RequestIds, userId \in Users : DeleteTrade(tradeId, userId)

Next == Tick \/ Create \/ Update \/ Delete

Spec == Init /\ [][Next]_vars

(***************************************************************************)
(* Two users on one store at one instant: every operation, interleaved,    *)
(* with the request bodies that open a position, close it and reopen it.   *)
(***************************************************************************)
OpenBody == [type |-> "long", quantity |-> 5, entryPrice |-> "100.00"]
CloseBody == [type |-> "long", quantity |-> 5, entryPrice |-> "100.00",
              exitPrice |-> "110.00"]
ReopenBody == [exitPrice |-> JsNull, pnl |-> JsNull, status |-> "open",
               exitTime |-> Null]

ScopedCreate ==
  \E userId \in Users, trade \in {OpenBody, CloseBody} : CreateTrade(userId, trade)

ScopedUpdate ==
  /\ UNCHANGED nUpdates
  /\ \E tradeId \in RequestIds, userId \in Users,
        trade \in {CloseBody, ReopenBody} :
       UpdateTrade(tradeId, userId, trade)

List ==
  \E userId \in Users, limit \in 0..MaxLimit : GetTrades(userId, Some(limit))

ListDefault == \E userId \in Users : GetTrades(userId, Null)

ListRange ==
  \E userId \in Users, startDate \in Times, endDate \in Times :
    GetTradesByDateRange(userId, startDate, endDate)

StatsCall == \E userId \in Users : StatsBegin(userId)

NextScoped ==
  \/ ScopedCreate \/ ScopedUpdate \/ Delete
  \/ List \/ ListDefault \/ ListRange
  \/ StatsCall \/ StatsToday \/ StatsYesterday \/ StatsTotal \/ StatsClosed

SpecScoped == Init /\ [][NextScoped]_vars

(***************************************************************************)
(* The read-only operations on a drawn store.  Each row is one createTrade *)
(* would insert, or such a row after an updateTrade that sets its status   *)
(* or its pnl.  The clock stands in the third day, so that rows of the day *)
(* before yesterday, of yesterday and of today exist.                      *)
(***************************************************************************)
ShortCloseBody == [CloseBody EXCEPT !.type = "short"]

\* <<owner, request body, columns set by a later update, created_at>>
SampleRows ==
  << <<"A", CloseBody, <<>>, 4>>,
     <<"A", ShortCloseBody, <<>>, 3>>,
     <<"A", CloseBody, SetClause([pnl |-> "0.00"]), 2>>,
     <<"A", CloseBody, SetClause([status |-> "open"]), 4>>,
     <<"A", OpenBody, SetClause([status |-> "closed"]), 5>>,
     <<"A", OpenBody, <<>>, 1>>,
     <<"A", OpenBody, <<>>, 5>>,
     <<"B", CloseBody, <<>>, 4>>,
     <<"B", OpenBody, <<>>, 2>> >>

SampleRow(id, k) ==
  Spread(RowAt(id, SampleRows[k][1], SampleRows[k][2], SampleRows[k][4]),
         SampleRows[k][3])

InitRead ==
  /\ now \in {2 * DayLen, 2 * DayLen + 1}
  /\ \E n \in 0..MaxRows :
       \E f \in [1..n -> DOMAIN SampleRows] :
         /\ \A i, j \in 1..n : i < j => f[i] <= f[j]
         /\ \A i \in 1..n : SampleRows[f[i]][4] <= now
         /\ trades = {SampleRow(i, f[i]) : i \in 1..n}
         /\ nextId = n + 1
  /\ nUpdates = 0
  /\ stats = StatsIdle
  /\ ret = NoResponse

NextRead ==
  \/ List \/ ListDefault
  \/ StatsCall \/ StatsToday \/ StatsYesterday \/ StatsTotal \/ StatsClosed

SpecRead == InitRead /\ [][NextRead]_vars

(***************************************************************************)
(* getTradingStats on a ledger: closed trades of user A, won of them won   *)
(* and the others lost, and at most one row more: a closed trade without   *)
(* gain or loss, a trade reopened with its pnl kept, a trade closed        *)
(* without a pnl, or a closed trade of user B.  The ledgers are the small  *)
(* ones and the largest.                                                   *)
(***************************************************************************)
LedgerSizes == (0..MaxRows) \cup {MaxClosed}
OtherRows == {3, 4, 5, 8}

\* The rows createTrade inserts for won long trades closed at a gain and
\* closed - won short trades closed at a loss.
Ledger(closed, won) ==
  {RowAt(i, "A", IF i <= won THEN CloseBody ELSE ShortCloseBody, 2 * DayLen) :
     i \in 1..closed}

InitLedger ==
  /\ now = 2 * DayLen + 1
  /\ \E closed \in LedgerSizes :
       \E won \in 0..closed :
         \/ /\ trades = Ledger(closed, won)
            /\ nextId = closed + 1
         \/ \E k \in OtherRows :
              /\ trades = Ledger(closed, won) \cup {SampleRow(closed + 1, k)}
              /\ nextId = closed + 2
  /\ nUpdates = 0
  /\ stats = StatsIdle
  /\ ret = NoResponse

NextLedger ==
  StatsCall \/ StatsToday \/ StatsYesterday \/ StatsTotal \/ StatsClosed

SpecLedger == InitLedger /\ [][NextLedger]_vars

(***************************************************************************)
(* Properties of the write path (Spec).                                    *)
(***************************************************************************)
\* (exit - entry) * quantity for long, (entry - exit) * quantity for short,
\* of a row's own columns.
PnlOfRow(t) ==
  IF t.type = "long"
  THEN (Val(t.exitPrice) - t.entryPrice) * t.quantity
  ELSE (t.entryPrice - Val(t.exitPrice)) * t.quantity

\* C1: every stored trade is closed iff its exitPrice is non-null iff its
\* pnl is non-null iff its exitTime is non-null.
C1_ClosedIffExitData ==
  \A t \in trades :
    /\ (t.status = "closed") <=> (t.exitPrice # Null)
    /\ (t.exitPrice # Null) <=> (t.pnl # Null)
    /\ (t.pnl # Null) <=> (t.exitTime # Null)

\* C3: a row that createTrade or a matching updateTrade returns with its
\* exitPrice known carries the pnl computed from its own direction,
\* quantity and prices.
C3_PnlOfStoredValues ==
  (ret.op \in {"createTrade", "updateTrade"} /\ Len(ret.rows) = 1) =>
    LET t == ret.rows[1]
    IN (t \in trades /\ t.exitPrice # Null) => t.pnl = Some(PnlOfRow(t))

\* C4: an updateTrade whose body supplies an exitPrice, on an open trade,
\* leaves the trade closed with a pnl and an exitTime.
C4_ExitPriceCloses ==
  [][\A tradeId \in RequestIds, userId \in Users, trade \in UpdateBodies :
       ( /\ Truthy(trade, "exitPrice")
         /\ \E t \in Matching(tradeId, userId) : t.status = "open"
         /\ UpdateTrade(tradeId, userId, trade)
         /\ ~ret'.err )
       => \A t \in trades' :
            (t.id = tradeId) =>
              t.status = "closed" /\ t.pnl # Null /\ t.exitTime # Null]_vars

\* C5: a trade that is closed stays closed for as long as it exists.
C5_ClosedStaysClosed ==
  [][\A t \in trades, u \in trades' :
       (t.id = u.id /\ t.status = "closed") => u.status = "closed"]_vars

(***************************************************************************)
(* Properties of the operations of two users on one store (SpecScoped).    *)
(***************************************************************************)
\* The rows of the other users.
Foreign(store, userId) == {t \in store : t.userId # userId}

\* C2: what getTrades, getTradesByDateRange and getTradingStats return for
\* a user is what they return on the store holding that user's rows alone,
\* every returned row is the user's, and an updateTrade or deleteTrade by a
\* user leaves the rows of every other user as they were, whatever the
\* tradeId.
C2_OwnerScoped ==
  [][LET own == Owned(trades, ret'.userId)
         mine == Owned(trades, stats.userId)
     IN /\ \A i \in DOMAIN ret'.rows : ret'.rows[i].userId = ret'.userId
        /\ (ret'.op = "getTrades") =>
             ret'.rows \in SelectTrades(own, ret'.userId, ret'.limit)
        /\ (ret'.op = "getTradesByDateRange") =>
             ret'.rows \in SelectRange(own, ret'.userId, ret'.from, ret'.to)
        /\ (stats.pc = "today" /\ stats'.pc = "yesterday") =>
             stats'.todayCount = CountToday(mine, stats.userId, stats.today)
        /\ (stats.pc = "yesterday" /\ stats'.pc = "total") =>
             stats'.yesterdayCount =
               CountYesterday(mine, stats.userId, stats.today)
        /\ (stats.pc = "total" /\ stats'.pc = "closed") =>
             stats'.totalCount = CountTotal(mine, stats.userId)
        /\ (stats.pc = "closed" /\ stats'.pc = "idle") =>
             /\ ret'.userId = stats.userId
             /\ ret'.stat.winRate = WinRate(ClosedTrades(mine, stats.userId))
             /\ ret'.stat.totalPnL = TotalPnL(ClosedTrades(mine, stats.userId))
        /\ (ret'.op \in {"updateTrade", "deleteTrade"}) =>
             Foreign(trades', ret'.userId) = Foreign(trades, ret'.userId)
    ]_vars

\* An updateTrade by A was given the id of a trade that B owns.
C2_Witness ==
  /\ ret.op = "updateTrade" /\ ret.userId = "A" /\ ~ret.err
  /\ \E t \in trades : t.id = ret.tradeId /\ t.userId = "B"
  /\ Owned(trades, "A") # {}

\* C6: a deleteTrade whose (tradeId, userId) pair matches no row returns
\* without error and leaves the store as it was; one whose pair matches
\* removes that one row and leaves every other row as it was.
C6_DeleteExactlyTheMatch ==
  [][(ret'.op = "deleteTrade" /\ stats' = stats) =>
       LET hit == {t \in trades :
                     t.id = ret'.tradeId /\ t.userId = ret'.userId}
       IN /\ hit = {} => ~ret'.err /\ trades' = trades
          /\ hit # {} =>
               /\ ~ret'.err
               /\ Cardinality(trades') = Cardinality(trades) - 1
               /\ trades' \subseteq trades
               /\ \A t \in trades : t \in trades' <=> t \notin hit
    ]_vars

\* C6, amended: a deleteTrade whose tradeId is a uuid and whose (tradeId,
\* userId) pair matches no row returns without error and leaves the store
\* as it was; one whose tradeId is no uuid matches no row either, throws,
\* and leaves the store as it was; one whose pair matches returns without
\* error, removes that one row and leaves every other row as it was.
C6_DeleteUuidExactlyTheMatch ==
  [][(ret'.op = "deleteTrade" /\ stats' = stats) =>
       LET hit == {t \in trades :
                     t.id = ret'.tradeId /\ t.userId = ret'.userId}
       IN /\ ret'.err <=> ret'.tradeId \notin TradeIds
          /\ hit = {} => trades' = trades
          /\ hit # {} =>
               /\ Cardinality(trades') = Cardinality(trades) - 1
               /\ trades' \subseteq trades
               /\ \A t \in trades : t \in trades' <=> t \notin hit
    ]_vars

\* A deleteTrade matched no row while the store held rows, and returned
\* without error: the id was another user's.
C6_Witness ==
  /\ ret.op = "deleteTrade" /\ ~ret.err
  /\ \E t \in trades : t.id = ret.tradeId /\ t.userId # ret.userId
  /\ Cardinality(trades) = MaxTrades

\* C10: the figures getTradingStats returns describe one store state, so no
\* window count exceeds the total.
C10_StatsOneSnapshot ==
  (ret.op = "getTradingStats") =>
    /\ ret.stat.todayTrades <= ret.stat.totalTrades
    /\ ret.stat.yesterdayTrades <= ret.stat.totalTrades

(***************************************************************************)
(* Properties of the read-only operations on a drawn store (SpecRead,      *)
(* SpecLedger).  No step of either writes the store or moves the clock, so *)
(* a response is read against the store and the clock it was computed     *)
(* from.                                                                   *)
(***************************************************************************)
\* The user's closed rows, and those of them with a positive pnl.
ClosedOf(userId) ==
  {t \in trades : t.userId = userId /\ t.status = "closed"}
WonOf(userId) == {t \in ClosedOf(userId) : t.pnl # Null /\ Val(t.pnl) > 0}

\* The sum of pnl over the rows: each of the given amounts as often as a
\* row carries it.
RECURSIVE PnlSum(_, _)
PnlSum(rows, amounts) ==
  IF amounts = {} THEN 0
  ELSE LET v == CHOOSE a \in amounts : TRUE
       IN v * Cardinality({t \in rows : t.pnl = Some(v)})
            + PnlSum(rows, amounts \ {v})

\* C7: winRate is wins / closed * 100 rounded to two decimals (in
\* hundredths: the integer nearest to 10000 * wins / closed, a half
\* upwards as Math.round has it), totalPnL is the sum of pnl over the
\* user's closed trades, both are 0 without closed trades, and open trades
\* count in neither.
C7_WinRateAndTotal ==
  (ret.op = "getTradingStats") =>
    LET closed == Cardinality(ClosedOf(ret.userId))
        wins == Cardinality(WonOf(ret.userId))
    IN /\ closed = 0 => ret.stat.winRate = 0 /\ ret.stat.totalPnL = 0
       /\ closed > 0 =>
            /\ 2 * (ret.stat.winRate * closed - 10000 * wins) <= closed
            /\ 2 * (10000 * wins - ret.stat.winRate * closed) < closed
       /\ ret.stat.totalPnL =
            PnlSum(ClosedOf(ret.userId),
                   {Val(t.pnl) : t \in {r \in ClosedOf(ret.userId) : r.pnl # Null}})

\* The day a tick falls in.
DayOf(t) == t \div DayLen

\* C8: todayTrades counts the user's trades created today or at tomorrow's
\* midnight, yesterdayTrades those created yesterday or at today's
\* midnight, so a trade created at today's midnight is in both, and
\* totalTrades counts every trade of the user once.
C8_WindowsShareMidnight ==
  (ret.op = "getTradingStats") =>
    LET mine == {t \in trades : t.userId = ret.userId}
        atMidnight == {t \in mine : t.createdAt = DayOf(now) * DayLen}
        today == {t \in mine : DayOf(t.createdAt) = DayOf(now)}
        yesterday == {t \in mine : DayOf(t.createdAt) = DayOf(now) - 1}
        nextMidnight == {t \in mine : t.createdAt = (DayOf(now) + 1) * DayLen}
    IN /\ ret.stat.todayTrades = Cardinality(today \cup nextMidnight)
       /\ ret.stat.yesterdayTrades = Cardinality(yesterday \cup atMidnight)
       /\ ret.stat.totalTrades = Cardinality(mine)
       /\ atMidnight \subseteq today

\* The user's only trade was created at today's midnight: it is counted
\* today, yesterday and once in the total.
C8_Witness ==
  /\ ret.op = "getTradingStats"
  /\ \E t \in trades : t.userId = ret.userId /\ t.createdAt = Midnight(now)
  /\ ret.stat.todayTrades = 1
  /\ ret.stat.yesterdayTrades = 1
  /\ ret.stat.totalTrades = 1

\* C9: getTrades returns min(limit, owned) rows of the user, newest first,
\* none of the omitted rows newer than a returned one, with limit 10 when
\* none is given, and leaves the store as it was.
C9_NewestFirstUpToLimit ==
  [][(ret'.op = "getTrades") =>
       LET mine == {t \in trades : t.userId = ret'.userId}
           limit == IF ret'.limit = Null THEN 10 ELSE Val(ret'.limit)
           rows == ret'.rows
           got == {rows[i] : i \in DOMAIN rows}
       IN /\ trades' = trades
          /\ Len(rows) = IF limit < Cardinality(mine)
                         THEN limit ELSE Cardinality(mine)
          /\ got \subseteq mine
          /\ Cardinality(got) = Len(rows)
          /\ \A i, j \in DOMAIN rows :
               i < j => rows[i].createdAt >= rows[j].createdAt
          /\ \A t \in mine \ got, r \in got : t.createdAt <= r.createdAt
    ]_vars

\* A limit of 2 cut the list of a user with three trades, and an older
\* trade was left out.
C9_Witness ==
  /\ ret.op = "getTrades" /\ ret.limit = Some(2) /\ Len(ret.rows) = 2
  /\ Cardinality(Owned(trades, ret.userId)) = 3
  /\ \E t \in Owned(trades, ret.userId) :
       t.createdAt < ret.rows[2].createdAt
  /\ ret.rows[1].createdAt > ret.rows[2].createdAt

====
